---- MODULE Spec2Model ----
(***************************************************************************)
(* Used-bike price predictor (src/app.py): a Streamlit script.  Streamlit  *)
(* executes the whole script top to bottom on the first page load of a     *)
(* session and again on every widget interaction; st.button is True only   *)
(* in the run its click caused.  One script run is one action.             *)
(***************************************************************************)
EXTENDS Integers, Sequences, FiniteSets, TLC

VARIABLES
    disk,         \* the five pickled artifacts on disk (never written by app.py)
    store,        \* model, le_brand, le_city, le_owner, features as loaded by the last run
    loads,        \* how many times the load block (lines 9-13) has executed
    last,         \* what caused the last script run: "load", "widget", "predict"
                  \* (a function called on its own: "args" before, its name after)
    brand, city, owner, age, kms_driven, power,   \* sidebar widget values
    input_df,     \* the Feature Row of the last run (<<>> when the run built none)
    raw,          \* model.predict(input_df)[0] before the floor (0 when not computed)
    price,        \* price after the floor (0 when not computed)
    shap_vals,    \* explainer.shap_values(input_df)[0] (<<>> when not computed)
    shap_df,      \* the 10 entries selected for the charts (<<>> when not computed)
    top_pos, top_neg,  \* the driver lists (<<>> when not computed)
    rendered,     \* the elements the last run rendered, in order
    outcome,      \* how the last run ended: "landing", "ok", "predict_raised", "shap_raised"
                  \* ("none": no run)
    ties,         \* how the sort of this build orders equal keys: "stable" or "reversed"
    ref           \* history: <<>> or <<r>>, r an earlier completed request kept for comparison

vars == <<disk, store, loads, last, brand, city, owner, age, kms_driven, power,
          input_df, raw, price, shap_vals, shap_df, top_pos, top_neg,
          rendered, outcome, ties, ref>>

----------------------------------------------------------------------------
(* Bounds of the model *)

MaxRuns == 5        \* script runs explored per process
AgeStride == 5      \* the user drags the age slider in multiples of AgeStride steps
KmsStride == 100    \* ... the kms slider in multiples of KmsStride steps (of 500)
PowerStride == 50   \* ... the power slider in multiples of PowerStride steps (of 5)
MaxShap == 2        \* |contribution| of the free entries of a ranking input
NFree == 4          \* number of freely chosen entries of a ranking input

(* Program constants *)

AgeMin == 0
AgeMax == 20
AgeDefault == 3
KmsMin == 0
KmsMax == 200000
KmsDefault == 20000
KmsStep == 500
PowerMin == 50
PowerMax == 650
PowerDefault == 150
PowerStep == 5
PriceFloor == 5000
HighKms == 50000
NewAge == 2
HighPower == 300
TopN == 10
NDrivers == 2
NFeatures == 15

----------------------------------------------------------------------------
(* Arithmetic helpers *)

Abs(x) == IF x < 0 THEN -x ELSE x

Max(a, b) == IF a >= b THEN a ELSE b

Min(a, b) == IF a <= b THEN a ELSE b

RECURSIVE GCD(_, _)
GCD(a, b) == IF b = 0 THEN a ELSE GCD(b, a % b)

\* a // b written for a / b
TrueDivFloor(a, b) == [num |-> a \div b, den |-> 1]

\* Python's true division a / b of two ints (b > 0): the quotient as a
\* fraction in lowest terms, so that equal quotients are equal values.
TrueDiv(a, b) ==
    LET g == GCD(a, b)
    IN  [num |-> a \div g, den |-> b \div g]

\* Python's n ** 2 on an unbounded int, 0 <= n < 2^20, kept exact as two
\* base-10^6 limbs: value = hi * 10^6 + lo.
Square(n) ==
    LET a == n \div 1000
        b == n % 1000
        mid == 2 * a * b * 1000 + b * b
    IN  [hi |-> a * a + mid \div 1000000, lo |-> mid % 1000000]

----------------------------------------------------------------------------
(* The artifacts.  The pickles are not part of the sources; these are      *)
(* stand-ins: three label encoders with their sorted classes_, the feature *)
(* list, and stub regressors built from one decision stump per feature.    *)

BrandClasses == <<"Bajaj", "Honda", "Royal Enfield">>
CityClasses  == <<"Delhi", "Mumbai">>
OwnerClasses == <<"First Owner", "Second Owner", "Third Owner">>

FeatureNames ==
    <<"kms_driven", "owner", "age", "power", "brand", "city",
      "kms_per_year", "power_per_year", "age_sq", "kms_sq", "power_age",
      "is_first_owner", "is_high_kms", "is_new", "is_high_power">>

\* split thresholds of the stumps, one per feature (kms_sq in millions)
StumpThr == <<50000, 0, 4, 200, 0, 0, 10000, 50, 100, 10000, 1000, 0, 0, 0, 0>>

ModelA(kind) ==
    [kind |-> kind, base |-> 45000, thr |-> StumpThr,
     lo |-> <<3000, 1500, 6000, -4000, -500, 0, 700, -900, 200, 250, -300, -2500, 1000, -1200, -100>>,
     hi |-> <<-8000, -1500, -12000, 20000, 500, 300, -700, 900, -200, -250, 300, 2500, -1000, 1200, 100>>]

ModelB ==
    [kind |-> "ok", base |-> 5000, thr |-> StumpThr,
     lo |-> <<0, 0, 0, 0, 0, 0, 0, 0, 0, 0, 0, 0, 0, 0, 0>>,
     hi |-> <<-3000, -50, -7000, 0, 20, 20, -60, 10, -4000, -3000, -70, 0, -3000, 40, 40000>>]

Artifacts(m) ==
    [model |-> m, le_brand |-> BrandClasses, le_city |-> CityClasses,
     le_owner |-> OwnerClasses, features |-> FeatureNames]

\* a second training run: other classes_ in the encoders
AltArtifacts(m) ==
    [model |-> m,
     le_brand |-> <<"Hero", "KTM">>,
     le_city |-> <<"Chennai", "Delhi", "Pune">>,
     le_owner |-> <<"Fourth Owner Or More", "Second Owner">>,
     features |-> FeatureNames]

ArtifactSets ==
    { Artifacts(ModelA("ok")), Artifacts(ModelB),
      Artifacts(ModelA("predict_raises")), Artifacts(ModelA("shap_raises")) }

\* joblib.load(name + ".pkl"): what the file holds when the run reads it
Load(name) == disk[name]

\* the module-level names every run of the script binds anew (lines 9-13)
model    == Load("model")
le_brand == Load("le_brand")
le_city  == Load("le_city")
le_owner == Load("le_owner")
features == Load("features")

\* the five objects a run ends up holding
LoadArtifacts ==
    [model |-> model, le_brand |-> le_brand, le_city |-> le_city,
     le_owner |-> le_owner, features |-> features]

----------------------------------------------------------------------------
(* Label encoding and the Feature Row (lines 44-64) *)

Known(classes, x) == \E i \in 1..Len(classes) : classes[i] = x

\* LabelEncoder.transform([x])[0]: the 0-based position of x in classes_;
\* only defined for a known x (the library raises otherwise)
Transform(classes, x) == (CHOOSE i \in 1..Len(classes) : classes[i] = x) - 1

\* except: enc = -1
EncodeOrMinusOne(classes, x) == IF Known(classes, x) THEN Transform(classes, x) ELSE -1

\* try: enc = le.transform([x])[0] / except: enc = 0
EncodeOrZero(classes, x) == IF Known(classes, x) THEN Transform(classes, x) ELSE 0

\* int(b) of a Python bool
BoolInt(b) == IF b THEN 1 ELSE 0

build_input(b, c, o, a, k, p) ==
    LET brand_enc == EncodeOrZero(le_brand, b)
        city_enc  == EncodeOrZero(le_city, c)
        owner_enc == EncodeOrZero(le_owner, o)
    IN  << k, owner_enc, a, p,
           brand_enc, city_enc,
           TrueDiv(k, a + 1),
           TrueDiv(p, a + 1),
           a * a,
           Square(k),
           p * a,
           BoolInt(o = "First Owner"),
           BoolInt(k > HighKms),
           BoolInt(a <= NewAge),
           BoolInt(p > HighPower) >>

----------------------------------------------------------------------------
(* The regressor and the explainer (lines 69, 106): a stub ensemble of one *)
(* stump per feature; the contribution of a feature is its stump's leaf.   *)

\* row[i] > t for the three shapes a field has (kms_sq: t in millions)
Above(i, row, t) ==
    CASE i \in {7, 8} -> row[i].num > t * row[i].den
      [] i = 10       -> row[i].hi >= t
      [] OTHER        -> row[i] > t

Leaf(m, i, row) == IF Above(i, row, m.thr[i]) THEN m.hi[i] ELSE m.lo[i]

RECURSIVE SumLeaves(_, _, _)
SumLeaves(m, row, n) == IF n = 0 THEN 0 ELSE Leaf(m, n, row) + SumLeaves(m, row, n - 1)

\* a regressor whose output drifts with the number of runs made so far
model_predict_counting(row) == model.base + SumLeaves(model, row, Len(row)) + loads

\* float(model.predict(input_df)[0])
model_predict(row) == model.base + SumLeaves(model, row, Len(row))

\* explainer.shap_values(input_df)[0]
shap_values(row) == [i \in 1..Len(row) |-> Leaf(model, i, row)]

\* min(5000, price)
FloorPriceMin(r) == Min(PriceFloor, r)

\* price = max(5000, price)
FloorPrice(r) == Max(PriceFloor, r)

----------------------------------------------------------------------------
(* Ranking of the contributions (lines 107-110, 138-141) *)

\* pd.DataFrame({"Feature": features, "SHAP Value": shap_vals})
Frame(names, vals) == [i \in 1..Len(vals) |-> [Feature |-> names[i], Value |-> vals[i]]]

RECURSIVE SortedBy(_, _)
SortedBy(idx, code) ==
    IF idx = {} THEN <<>>
    ELSE LET m == CHOOSE i \in idx : \A j \in idx : code[i] <= code[j]
         IN  <<m>> \o SortedBy(idx \ {m}, code)

\* df.sort_values(..., ascending=True) on the keys given: rows in
\* non-decreasing key order.  The default kind ("quicksort") leaves the order
\* of equal keys to the library build: t is that order.
SortValues(df, keys, t) ==
    LET n == Len(df)
        code == [i \in 1..n |-> keys[i] * (n + 1) + (IF t = "stable" THEN i ELSE n + 1 - i)]
        order == SortedBy(1..n, code)
    IN  [i \in 1..n |-> df[order[i]]]

TailN(s, n) == SubSeq(s, Max(1, Len(s) - n + 1), Len(s))

HeadN(s, n) == SubSeq(s, 1, Min(n, Len(s)))

\* the same without key=abs
SelectTopSigned(names, vals, t) ==
    LET df == Frame(names, vals)
    IN  TailN(SortValues(df, [i \in 1..Len(df) |-> df[i].Value], t), TopN)

\* .sort_values("SHAP Value", key=abs, ascending=True).tail(10)
SelectTop(names, vals, t) ==
    LET df == Frame(names, vals)
    IN  TailN(SortValues(df, [i \in 1..Len(df) |-> Abs(df[i].Value)], t), TopN)

IsPositive(r) == r.Value > 0

IsNegative(r) == r.Value < 0

\* shap_df[shap_df["SHAP Value"] > 0].sort_values("SHAP Value", ascending=False).head(2)
TopPos(df, t) ==
    LET pos == SelectSeq(df, IsPositive)
    IN  HeadN(SortValues(pos, [i \in 1..Len(pos) |-> -pos[i].Value], t), NDrivers)

\* shap_df[shap_df["SHAP Value"] < 0].sort_values("SHAP Value").head(2)
TopNeg(df, t) ==
    LET neg == SelectSeq(df, IsNegative)
    IN  HeadN(SortValues(neg, [i \in 1..Len(neg) |-> neg[i].Value], t), NDrivers)

----------------------------------------------------------------------------
(* The script (lines 9-176) *)

\* every run renders the page header first (lines 18-28)
HeaderSteps == <<"header">>

\* the attribution call moved up beside the model call
PredictStepsExplainFirst ==
    <<"build_input", "model_predict", "shap_values", "price_card", "metrics",
      "shap_heading", "chart1", "chart2_heading", "chart2",
      "drivers_heading", "drivers_up", "drivers_down">>

\* the statements of the predict branch (lines 68-151) in source order:
\* calls that may raise, and render steps
PredictSteps ==
    <<"build_input", "model_predict", "price_card", "metrics", "shap_heading",
      "shap_values", "chart1", "chart2_heading", "chart2",
      "drivers_heading", "drivers_up", "drivers_down">>

\* the statements of the else branch (lines 155-176)
LandingSteps == <<"landing", "performance", "sources">>

Calls == {"build_input", "model_predict", "shap_values"}

IsRender(step) == step \notin Calls

\* the call at which a run with this regressor stops ("none": it completes)
RaisingCall(m) ==
    CASE m.kind = "predict_raises" -> "model_predict"
      [] m.kind = "shap_raises"    -> "shap_values"
      [] OTHER                     -> "none"

\* statements executed before the exception propagates out of the script
Executed(steps, raising) ==
    LET stops == {i \in 1..Len(steps) : steps[i] = raising}
        n == IF stops = {} THEN Len(steps)
             ELSE (CHOOSE i \in stops : \A j \in stops : i <= j) - 1
    IN  SubSeq(steps, 1, n)

RenderedBy(steps, raising) == SelectSeq(Executed(steps, raising), IsRender)

OutcomeOf(m) ==
    CASE m.kind = "predict_raises" -> "predict_raised"
      [] m.kind = "shap_raises"    -> "shap_raised"
      [] OTHER                     -> "ok"

\* a run without a click that keeps a result already on the page
RunLandingKeepResult ==
    IF \E i \in 1..Len(rendered) : rendered[i] = "price_card"
    THEN UNCHANGED <<input_df, raw, price, shap_vals, shap_df, top_pos, top_neg,
                     rendered, outcome>>
    ELSE /\ input_df' = <<>>
         /\ raw' = 0
         /\ price' = 0
         /\ shap_vals' = <<>>
         /\ shap_df' = <<>>
         /\ top_pos' = <<>>
         /\ top_neg' = <<>>
         /\ rendered' = <<"header", "landing", "performance", "sources">>
         /\ outcome' = "landing"

\* lines 153-176: the run of a script whose button was not clicked
RunLanding ==
    /\ input_df' = <<>>
    /\ raw' = 0
    /\ price' = 0
    /\ shap_vals' = <<>>
    /\ shap_df' = <<>>
    /\ top_pos' = <<>>
    /\ top_neg' = <<>>
    /\ rendered' = HeaderSteps \o LandingSteps
    /\ outcome' = "landing"

\* lines 67-151: the run of a script whose button was clicked, on the
\* widget values b, c, o, a, k, p
RunPredict(b, c, o, a, k, p) ==
    LET row == build_input(b, c, o, a, k, p)
        out == OutcomeOf(model)
        r   == model_predict(row)
        sv  == shap_values(row)
        df  == SelectTop(features, sv, ties)
    IN  /\ input_df' = row
        /\ outcome' = out
        /\ rendered' = HeaderSteps \o RenderedBy(PredictSteps, RaisingCall(model))
        /\ IF out = "predict_raised"
           THEN raw' = 0 /\ price' = 0
           ELSE raw' = r /\ price' = FloorPrice(r)
        /\ IF out = "ok"
           THEN /\ shap_vals' = sv
                /\ shap_df' = df
                /\ top_pos' = TopPos(df, ties)
                /\ top_neg' = TopNeg(df, ties)
           ELSE /\ shap_vals' = <<>>
                /\ shap_df' = <<>>
                /\ top_pos' = <<>>
                /\ top_neg' = <<>>

\* history: a completed request may be kept, once per session, to compare
\* later requests with
Remember(b, c, o, a, k, p) ==
    \/ UNCHANGED ref
    \/ /\ ref = <<>>
       /\ outcome' = "ok"
       /\ ref' = << [inputs |-> <<b, c, o, a, k, p>>, row |-> input_df',
                     price |-> price', shap |-> shap_vals', at |-> loads'] >>

\* one execution of app.py on the widget values b, c, o, a, k, p
ScriptRun(b, c, o, a, k, p, predict_btn, trigger) ==
    /\ loads' = loads + 1
    /\ store' = LoadArtifacts
    /\ last' = trigger
    /\ brand' = b
    /\ city' = c
    /\ owner' = o
    /\ age' = a
    /\ kms_driven' = k
    /\ power' = p
    /\ UNCHANGED <<disk, ties>>
    /\ IF predict_btn THEN RunPredict(b, c, o, a, k, p) ELSE RunLanding

----------------------------------------------------------------------------
(* The sidebar widgets (lines 33-41) *)

\* st.selectbox(label, sorted(classes_)): classes_ is kept sorted by the
\* encoder, so the options are its classes in order; the first is the default
Options(classes) == {classes[i] : i \in 1..Len(classes)}

\* a slider whose last position lies past hi
SliderValuesOvershoot(lo, hi, step, stride) ==
    {lo + j * stride * step : j \in 0..((hi - lo) \div (stride * step) + 1)}

\* st.slider(label, lo, hi, default, step): the positions lo + j*step up to
\* hi; the user is followed to every stride-th of them
SliderValues(lo, hi, step, stride) ==
    {lo + j * stride * step : j \in 0..((hi - lo) \div (stride * step))}

Init ==
    /\ disk \in ArtifactSets
    /\ ties \in {"stable", "reversed"}
    /\ store = LoadArtifacts
    /\ loads = 1
    /\ last = "load"
    /\ brand = le_brand[1]
    /\ city = le_city[1]
    /\ owner = le_owner[1]
    /\ age = AgeDefault
    /\ kms_driven = KmsDefault
    /\ power = PowerDefault
    /\ input_df = <<>>
    /\ raw = 0
    /\ price = 0
    /\ shap_vals = <<>>
    /\ shap_df = <<>>
    /\ top_pos = <<>>
    /\ top_neg = <<>>
    /\ rendered = HeaderSteps \o LandingSteps
    /\ outcome = "landing"
    /\ ref = <<>>

\* a fresh page load: a new session, every widget at its default
PageLoad ==
    /\ loads < MaxRuns
    /\ ScriptRun(le_brand[1], le_city[1], le_owner[1],
                 AgeDefault, KmsDefault, PowerDefault, FALSE, "load")
    /\ ref' = <<>>

SelectBrand ==
    /\ loads < MaxRuns
    /\ \E b \in Options(le_brand) \ {brand} :
          ScriptRun(b, city, owner, age, kms_driven, power, FALSE, "widget")
    /\ UNCHANGED ref

SelectCity ==
    /\ loads < MaxRuns
    /\ \E c \in Options(le_city) \ {city} :
          ScriptRun(brand, c, owner, age, kms_driven, power, FALSE, "widget")
    /\ UNCHANGED ref

SelectOwner ==
    /\ loads < MaxRuns
    /\ \E o \in Options(le_owner) \ {owner} :
          ScriptRun(brand, city, o, age, kms_driven, power, FALSE, "widget")
    /\ UNCHANGED ref

SlideAge ==
    /\ loads < MaxRuns
    /\ \E a \in SliderValues(AgeMin, AgeMax, 1, AgeStride) \ {age} :
          ScriptRun(brand, city, owner, a, kms_driven, power, FALSE, "widget")
    /\ UNCHANGED ref

SlideKms ==
    /\ loads < MaxRuns
    /\ \E k \in SliderValues(KmsMin, KmsMax, KmsStep, KmsStride) \ {kms_driven} :
          ScriptRun(brand, city, owner, age, k, power, FALSE, "widget")
    /\ UNCHANGED ref

SlidePower ==
    /\ loads < MaxRuns
    /\ \E p \in SliderValues(PowerMin, PowerMax, PowerStep, PowerStride) \ {power} :
          ScriptRun(brand, city, owner, age, kms_driven, p, FALSE, "widget")
    /\ UNCHANGED ref

\* a click on "Predict Price": the only run in which predict_btn is True
ClickPredict ==
    /\ loads < MaxRuns
    /\ ScriptRun(brand, city, owner, age, kms_driven, power, TRUE, "predict")
    /\ Remember(brand, city, owner, age, kms_driven, power)

Next ==
    \/ PageLoad
    \/ SelectBrand
    \/ SelectCity
    \/ SelectOwner
    \/ SlideAge
    \/ SlideKms
    \/ SlidePower
    \/ ClickPredict

Spec == Init /\ [][Next]_vars

----------------------------------------------------------------------------
(* build_input called on its own, on arguments the widgets cannot produce  *)
(* as well as on those they can                                            *)

BuildBrands == {"Bajaj", "Honda", "Hero", "Ducati"}
BuildCities == {"Delhi", "Mumbai", "Atlantis"}
BuildOwners == {"First Owner", "Second Owner", "Third Owner", "Fifth Owner"}

InitBuild ==
    /\ disk \in {Artifacts(ModelB), AltArtifacts(ModelB)}
    /\ ties = "stable"
    /\ store = LoadArtifacts
    /\ loads = 1
    /\ last = "args"
    /\ brand \in BuildBrands
    /\ city \in BuildCities
    /\ owner \in BuildOwners
    /\ age \in AgeMin..AgeMax
    /\ kms_driven \in SliderValues(KmsMin, KmsMax, KmsStep, KmsStride)
    /\ power \in SliderValues(PowerMin, PowerMax, PowerStep, PowerStride)
    /\ input_df = <<>>
    /\ raw = 0
    /\ price = 0
    /\ shap_vals = <<>>
    /\ shap_df = <<>>
    /\ top_pos = <<>>
    /\ top_neg = <<>>
    /\ rendered = <<>>
    /\ outcome = "none"
    /\ ref = <<>>

CallBuildInput ==
    /\ last = "args"
    /\ input_df' = build_input(brand, city, owner, age, kms_driven, power)
    /\ last' = "build_input"
    /\ UNCHANGED <<disk, store, loads, brand, city, owner, age, kms_driven, power,
                   raw, price, shap_vals, shap_df, top_pos, top_neg,
                   rendered, outcome, ties, ref>>

SpecBuild == InitBuild /\ [][CallBuildInput]_vars

----------------------------------------------------------------------------
(* The ranking (lines 107-110, 138-141) applied to Attribution Sets chosen *)
(* freely: NFree entries of any value up to MaxShap in magnitude, the rest *)
(* following one of four patterns                                          *)

TailPatterns == {"neg", "zero", "pos", "mixed"}

TailValue(pat, i) ==
    CASE pat = "neg"  -> -(MaxShap + 1)
      [] pat = "zero" -> 0
      [] pat = "pos"  -> MaxShap + 1
      [] OTHER        -> IF i % 2 = 0 THEN 1 ELSE -1

RankInputs ==
    { [i \in 1..NFeatures |-> IF i <= NFree THEN f[i] ELSE TailValue(pat, i)] :
        f \in [1..NFree -> (-MaxShap)..MaxShap], pat \in TailPatterns }

InitRank ==
    /\ disk = Artifacts(ModelB)
    /\ ties \in {"stable", "reversed"}
    /\ store = LoadArtifacts
    /\ loads = 1
    /\ last = "args"
    /\ brand = le_brand[1]
    /\ city = le_city[1]
    /\ owner = le_owner[1]
    /\ age = AgeDefault
    /\ kms_driven = KmsDefault
    /\ power = PowerDefault
    /\ input_df = <<>>
    /\ raw = 0
    /\ price = 0
    /\ shap_vals \in RankInputs
    /\ shap_df = <<>>
    /\ top_pos = <<>>
    /\ top_neg = <<>>
    /\ rendered = <<>>
    /\ outcome = "none"
    /\ ref = <<>>

CallRank ==
    /\ last = "args"
    /\ LET df == SelectTop(features, shap_vals, ties)
       IN  /\ shap_df' = df
           /\ top_pos' = TopPos(df, ties)
           /\ top_neg' = TopNeg(df, ties)
    /\ last' = "rank"
    /\ UNCHANGED <<disk, store, loads, brand, city, owner, age, kms_driven, power,
                   input_df, raw, price, shap_vals, rendered, outcome, ties, ref>>

SpecRank == InitRank /\ [][CallRank]_vars

----------------------------------------------------------------------------
(* Properties *)

Shows(step) == \E i \in 1..Len(rendered) : rendered[i] = step

ResultShown == Shows("price_card")

LandingShown == Shows("landing")

Predicted == last = "predict" /\ outcome \in {"ok", "shap_raised"}

\* C1: the price a predict run displays is max(5000, raw): never below 5000,
\* never below raw, one of the two, and raw itself when raw >= 5000.
C1_PriceFloored ==
    Predicted =>
        /\ ResultShown
        /\ price >= 5000
        /\ price >= raw
        /\ price \in {5000, raw}
        /\ (raw >= 5000 => price = raw)

\* a predict run whose raw output is negative has displayed price 5000
C1_Witness == Predicted /\ raw < 0 /\ price = 5000 /\ ResultShown

\* value of the two-limb number kms_sq read back against the slider position
\* j = kms_driven / 500: kms_driven^2 = 250000 * j^2
IsSquareOfKms(sq, k) ==
    /\ sq.lo \in 0..999999
    /\ sq.lo % 250000 = 0
    /\ sq.hi * 4 + sq.lo \div 250000 = (k \div 500) * (k \div 500)

Built == last = "build_input"

InUiDomain ==
    /\ age \in 0..20
    /\ kms_driven \in 0..200000
    /\ power \in 50..650

\* C2: on inputs of the UI domain build_input returns 15 values in the
\* order kms_driven, owner code, age, power, brand code, city code,
\* kms_driven/(age+1), power/(age+1), age^2, kms_driven^2, power*age and
\* the four flags, each flag 0 or 1 and 1 exactly on its condition.
C2_RowLayout ==
    (Built /\ InUiDomain) =>
        /\ Len(input_df) = 15
        /\ input_df[1] = kms_driven
        /\ input_df[2] \in 0..(Len(le_owner) - 1)
        /\ (Known(le_owner, owner) => le_owner[input_df[2] + 1] = owner)
        /\ input_df[3] = age
        /\ input_df[4] = power
        /\ input_df[5] \in 0..(Len(le_brand) - 1)
        /\ (Known(le_brand, brand) => le_brand[input_df[5] + 1] = brand)
        /\ input_df[6] \in 0..(Len(le_city) - 1)
        /\ (Known(le_city, city) => le_city[input_df[6] + 1] = city)
        /\ input_df[7].den > 0
        /\ input_df[7].num * (age + 1) = kms_driven * input_df[7].den
        /\ input_df[8].den > 0
        /\ input_df[8].num * (age + 1) = power * input_df[8].den
        /\ input_df[9] = age * age
        /\ IsSquareOfKms(input_df[10], kms_driven)
        /\ input_df[11] = power * age
        /\ \A i \in 12..15 : input_df[i] \in {0, 1}
        /\ (input_df[12] = 1 <=> owner = "First Owner")
        /\ (input_df[13] = 1 <=> kms_driven > 50000)
        /\ (input_df[14] = 1 <=> age <= 2)
        /\ (input_df[15] = 1 <=> power > 300)

\* a row built for a first-owner bike over 50000 km, older than 2 years
C2_Witness ==
    /\ Built
    /\ InUiDomain
    /\ owner = "First Owner"
    /\ kms_driven > 50000
    /\ age > 2
    /\ power > 300
    /\ Len(input_df) = 15

\* C3: an unknown brand, city or owner is encoded 0 and the call returns a
\* row; for brand and city that row is the row of the encoder's first class;
\* a fallback leaves the codes of the other two categorical fields alone.
C3_UnknownFallsBackToZero ==
    Built =>
        /\ Len(input_df) = 15
        /\ (~Known(le_brand, brand) =>
               /\ input_df[5] = 0
               /\ input_df = build_input(le_brand[1], city, owner, age, kms_driven, power))
        /\ (~Known(le_city, city) =>
               /\ input_df[6] = 0
               /\ input_df = build_input(brand, le_city[1], owner, age, kms_driven, power))
        /\ (~Known(le_owner, owner) =>
               /\ input_df[2] = 0
               /\ input_df[5] = build_input(brand, city, le_owner[1], age, kms_driven, power)[5]
               /\ input_df[6] = build_input(brand, city, le_owner[1], age, kms_driven, power)[6])
        /\ (Known(le_city, city) => input_df[6] = Transform(le_city, city))
        /\ (Known(le_brand, brand) => input_df[5] = Transform(le_brand, brand))
        /\ (Known(le_owner, owner) => input_df[2] = Transform(le_owner, owner))

\* a row built from an unknown brand beside a known city that is not the
\* first class of its encoder
C3_Witness ==
    /\ Built
    /\ ~Known(le_brand, brand)
    /\ Known(le_city, city)
    /\ input_df[5] = 0
    /\ input_df[6] > 0

ResultSteps == {PredictSteps[i] : i \in 1..Len(PredictSteps)} \ Calls

\* C4 as claimed: once a result is shown, every later run of the session
\* that is not a fresh page load still shows the result, not the landing page.
C4_ResultStays ==
    [][(ResultShown /\ last' # "load") => (ResultShown' /\ ~LandingShown')]_vars

\* C4 as amended: a run shows the landing page exactly when its button was
\* not clicked, and a result only when it was: a widget change after a
\* result puts the session back on the landing page.
C4_LandingUnlessClicked ==
    /\ (LandingShown <=> last # "predict")
    /\ (ResultShown => last = "predict")
    /\ ~(LandingShown /\ ResultShown)

\* a widget change made after a result was shown in this session
C4_Witness == ref # <<>> /\ last = "widget" /\ LandingShown /\ ~ResultShown

RECURSIVE CountIf(_, _, _)
CountIf(vals, n, sign) ==
    IF n = 0 THEN 0
    ELSE (IF vals[n] * sign > 0 THEN 1 ELSE 0) + CountIf(vals, n - 1, sign)

Ranked == last = "rank"

\* the entry of the Attribution Set at position i of the feature list
Entry(i) == [Feature |-> features[i], Value |-> shap_vals[i]]

InSeq(s, r) == \E j \in 1..Len(s) : s[j] = r

\* C6: the entries selected for the charts are 10 distinct entries of the
\* Attribution Set, none left out has a larger absolute contribution than
\* one kept, and they are in non-decreasing order of absolute contribution.
C6_TopTenByMagnitude ==
    Ranked =>
        /\ Len(shap_df) = 10
        /\ \A j \in 1..Len(shap_df) : \E i \in 1..15 : shap_df[j] = Entry(i)
        /\ \A j, k \in 1..Len(shap_df) : j # k => shap_df[j].Feature # shap_df[k].Feature
        /\ \A i \in 1..15 : \A j \in 1..Len(shap_df) :
               ~InSeq(shap_df, Entry(i)) => Abs(shap_vals[i]) <= Abs(shap_df[j].Value)
        /\ \A j \in 1..(Len(shap_df) - 1) :
               Abs(shap_df[j].Value) <= Abs(shap_df[j + 1].Value)

\* a ranking of mixed signs in which an entry left out ties with one kept
C6_Witness ==
    /\ Ranked
    /\ \E i \in 1..15 : \E j \in 1..Len(shap_df) :
          /\ ~InSeq(shap_df, Entry(i))
          /\ Abs(shap_vals[i]) = Abs(shap_df[j].Value)
          /\ shap_vals[i] # 0
    /\ \E j, k \in 1..Len(shap_df) : shap_df[j].Value > 0 /\ shap_df[k].Value < 0

\* the driver list `top` holds the min(2, count) entries of the Attribution
\* Set that are largest in the direction sign (1: positive, -1: negative),
\* largest first
DriversOfSet(top, sign) ==
    /\ Len(top) = Min(2, CountIf(shap_vals, 15, sign))
    /\ \A j \in 1..Len(top) :
          /\ top[j].Value * sign > 0
          /\ \E i \in 1..15 : top[j] = Entry(i)
    /\ \A j, k \in 1..Len(top) : j # k => top[j].Feature # top[k].Feature
    /\ \A i \in 1..15 : \A j \in 1..Len(top) :
          ~InSeq(top, Entry(i)) => shap_vals[i] * sign <= top[j].Value * sign
    /\ \A j \in 1..(Len(top) - 1) : top[j].Value * sign >= top[j + 1].Value * sign

\* C7: the driver lists are the min(2, count) largest positive and the
\* min(2, count) most negative entries of the Attribution Set, largest
\* first, so a list is non-empty whenever the set has an entry of its sign.
C7_DriversOfAttributionSet ==
    Ranked => (DriversOfSet(top_pos, 1) /\ DriversOfSet(top_neg, -1))

\* C8: every row a predict run builds comes from widget values inside the
\* declared domain: known categories, age in 0..20, kms_driven a multiple of
\* 500 in 0..200000, power a multiple of 5 in 50..650; so age + 1 >= 1 and
\* each code is the encoder's own, not the fallback.
C8_InputsInDomain ==
    last = "predict" =>
        /\ Known(le_brand, brand)
        /\ Known(le_city, city)
        /\ Known(le_owner, owner)
        /\ age \in 0..20
        /\ kms_driven \in 0..200000
        /\ kms_driven % 500 = 0
        /\ power \in 50..650
        /\ power % 5 = 0
        /\ age + 1 >= 1
        /\ input_df[7].den \in 1..(age + 1)
        /\ le_brand[input_df[5] + 1] = brand
        /\ le_city[input_df[6] + 1] = city
        /\ le_owner[input_df[2] + 1] = owner

\* a predict run on age 0 and categories that are not the defaults
C8_Witness ==
    /\ last = "predict"
    /\ age = 0
    /\ input_df[5] > 0
    /\ input_df[2] > 0
    /\ input_df[7].den = 1

C10_LoadedOnce == loads = 1 /\ store = LoadArtifacts

====
